---- MODULE Spec2Model ----
(***************************************************************************)
(* AETHER_VERITAS: the embedding store (vectors.npy + metadata.json), its  *)
(* two builders (logic/indexer.py and the older copy in logic/resolver.py),*)
(* the targeted re-indexer and the resolution engine.                      *)
(*                                                                         *)
(* Strings that take part in an underscore join (region, tag, name, id)    *)
(* are sequences of underscore-free atoms, so that f"{a}_{b}" is a \o b.   *)
(* Every other string (text, raw_xml) is a flat sequence of atoms.         *)
(* Cosine similarities are exact rationals scaled by 100 (0.30 is 30).     *)
(***************************************************************************)
EXTENDS Integers, Sequences, FiniteSets, TLC

VARIABLES vectorsFile, metadataFile, pc, pending, engine, atConstruction,
          last, result

vars == <<vectorsFile, metadataFile, pc, pending, engine, atConstruction,
          last, result>>

\* ------------------------------------------------------------------ bounds
\* Largest number of HEALED_INTENT annotations kept in one persisted store.
MaxHeals == 1

\* ------------------------------------------------------------- python values
\* Python's None (a missing attribute or dictionary key).
None == <<"<None>">>

\* Python truthiness of an optional string: None and "" are falsy.
Truthy(s) == s # None /\ s # << >>

\* f"{a}_{b}"
Join(a, b) == a \o b

\* dict.get(key) on a metadata dictionary: None when the key is missing.
MetaGet(m, key) == IF key \in DOMAIN m THEN m[key] ELSE None

\* ------------------------------------------------------------- manuscripts
\* node.get(key, default) on an XML element.
NodeGet(node, key, default) ==
    IF key \in DOMAIN node.attrib THEN node.attrib[key] ELSE default

\* ET.tostring(node): the element's markup, attributes in document order.
Tostring(node) ==
    <<"<">> \o node.tag
    \o (IF "name" \in DOMAIN node.attrib
        THEN <<"name=">> \o node.attrib["name"] ELSE << >>)
    \o (IF "inheritsFrom" \in DOMAIN node.attrib
        THEN <<"inheritsFrom=">> \o node.attrib["inheritsFrom"] ELSE << >>)
    \o <<">", node.body, "</">> \o node.tag \o <<">">>

NoAttrib == [k \in {} |-> << >>]

Elem(tag, attrib, body) == [tag |-> tag, attrib |-> attrib, body |-> body]

Named(n) == [k \in {"name"} |-> n]

Child(n, p) == [k \in {"name", "inheritsFrom"} |->
                   IF k = "name" THEN n ELSE p]

\* The manuscripts a path may hold, as the sequence of its elements in
\* document order.
DocGlobal ==
    << Elem(<<"Coverage">>, Named(<<"Comprehensive">>), "deductible 500"),
       Elem(<<"Factor">>, Named(<<"SafeDriver">>), "multiplier 0.9") >>

DocCA ==
    << Elem(<<"Coverage">>, Child(<<"Comprehensive">>, <<"Comprehensive">>),
            "seismic 1.2"),
       Elem(<<"Factor">>, Child(<<"Seismic">>, <<"Ghost">>), "fee 40") >>

DocOdd ==
    << Elem(<<"Governance", "Rules">>, NoAttrib, "effective 2024"),
       Elem(<<"Factor">>, Child(<< >>, << >>), "blank") >>

DocNoRules ==
    << Elem(<<"Note">>, NoAttrib, "draft") >>

\* A manuscript that reuses a name and leaves two elements unnamed.
DocDup ==
    << Elem(<<"Coverage">>, Named(<<"Rider">>), "limit 100"),
       Elem(<<"Factor">>, Named(<<"Rider">>), "multiplier 1.1"),
       Elem(<<"Factor">>, NoAttrib, "multiplier 1.2"),
       Elem(<<"Factor">>, NoAttrib, "multiplier 1.3") >>

Missing == [exists |-> FALSE, doc |-> << >>]

Present(doc) == [exists |-> TRUE, doc |-> doc]

\* The manuscript folder: what each path holds.
Manuscripts ==
    ("global_base.xml" :> Present(DocGlobal))
    @@ ("ca_overlay.xml" :> Present(DocCA))
    @@ ("odd.xml" :> Present(DocOdd))
    @@ ("notes.xml" :> Present(DocNoRules))
    @@ ("dup.xml" :> Present(DocDup))
    @@ ("gone.xml" :> Missing)

\* files_config: an insertion-ordered dict region -> path.
Entry(region, path) == [region |-> region, path |-> path]

\* The mapping run_indexing_pipeline passes.
PipelineConfig ==
    << Entry(<<"Global">>, "global_base.xml"), Entry(<<"CA">>, "ca_overlay.xml") >>

Configs ==
    { PipelineConfig,
      << Entry(<<"Global", "Base">>, "gone.xml"), Entry(<<"CA">>, "ca_overlay.xml") >>,
      << Entry(<<"Global">>, "gone.xml"), Entry(<<"CA">>, "notes.xml") >>,
      << Entry(<<"Global">>, "odd.xml"), Entry(<<"CA">>, "ca_overlay.xml") >>,
      << Entry(<<"Global">>, "dup.xml") >> }

\* ------------------------------------------------------- chunk extraction
\* logic/indexer.py: self.semantic_bridge (the keys this model's names reach).
semantic_bridge ==
    (<<"Global", "Comprehensive">> :> <<"Standard Base Policy">>)
    @@ (<<"SafeDriver">> :> <<"Safe Driver Discount">>)
    @@ (<<"CA", "Comprehensive">> :> <<"CALIFORNIA ONLY">>)
    @@ (<<"CA", "Seismic", "Surcharge">> :> <<"California Earthquake Fee">>)

\* logic/resolver.py: AetherIndexer.semantic_bridge.
semantic_bridge_resolver ==
    (<<"Global", "Base", "Comprehensive">> :> <<"Standard Base Policy">>)
    @@ (<<"CA", "Comprehensive">> :> <<"CALIFORNIA ONLY">>)
    @@ (<<"Governance", "Rules">> :> <<"Effective dates">>)

BridgeGet(bridge, key, default) ==
    IF key \in DOMAIN bridge THEN bridge[key] ELSE default

\* The tags each extractor's XPath selects.
IndexerTags == { <<"Coverage">>, <<"Factor">> }

ResolverTags == { <<"Coverage">>, <<"Factor">>, <<"Governance", "Rules">>,
                  <<"LOB", "Configuration">> }

\* logic/indexer.py chunk_xml: the chunk of one selected element.
IndexerChunk(node, region) ==
    LET name == NodeGet(node, "name", <<"Unnamed">>)
        raw_xml == Tostring(node)
        lookup_key == IF Join(region, name) \in DOMAIN semantic_bridge
                      THEN Join(region, name) ELSE name
        synonyms == BridgeGet(semantic_bridge, lookup_key,
                              <<"General Insurance Concept">>)
    IN  [ id |-> Join(region, name),
          text |-> <<"DOMAIN", "Insurance", "REGION">> \o region
                   \o <<"TECHNICAL_ID">> \o name
                   \o <<"HUMAN_INTENT">> \o synonyms,
          metadata |-> [ region |-> region, name |-> name,
                         synonyms |-> synonyms, raw_xml |-> raw_xml ] ]

\* logic/resolver.py _expand_synonyms: the model's answer, or the fixed
\* placeholder when the call raises (ok = FALSE).
ExpandSynonyms(technical_id, ok) ==
    IF ok THEN <<"aka">> \o technical_id ELSE <<"General Insurance">>

\* logic/resolver.py chunk_xml: the chunk of one selected element.
ResolverChunk(node, region, ok) ==
    LET name == NodeGet(node, "name", node.tag)
        inherits == NodeGet(node, "inheritsFrom", None)
        raw_xml == Tostring(node)
        lookup_key == Join(region, name)
        static_keywords ==
            BridgeGet(semantic_bridge_resolver, lookup_key,
                      BridgeGet(semantic_bridge_resolver, name,
                                <<"General Coverage">>))
        dynamic_keywords == ExpandSynonyms(name, ok)
    IN  [ id |-> Join(Join(region, node.tag), name),
          text |-> <<"REGION">> \o region \o <<"TAG">> \o node.tag
                   \o <<"ID">> \o name \o <<"INTENT">> \o static_keywords
                   \o <<"COLLOQUIAL">> \o dynamic_keywords,
          metadata |-> [ region |-> region, name |-> name, tag |-> node.tag,
                         inheritsFrom |-> inherits, raw_xml |-> raw_xml ] ]

\* chunk_xml(file_path, region) of either extractor: one chunk per selected
\* element, in document order. gen is TRUE when the generative service
\* answers the calls of this build.
RECURSIVE chunk_xml(_, _, _, _)
chunk_xml(variant, doc, region, gen) ==
    IF doc = << >> THEN << >>
    ELSE LET node == Head(doc)
             rest == chunk_xml(variant, Tail(doc), region, gen)
         IN  IF variant = "indexer"
             THEN IF node.tag \in IndexerTags
                  THEN <<IndexerChunk(node, region)>> \o rest ELSE rest
             ELSE IF node.tag \in ResolverTags
                  THEN <<ResolverChunk(node, region, gen)>> \o rest ELSE rest

\* os.path.exists(path) on a manuscript path.
PathExists(path) == Manuscripts[path].exists

\* Mutant of ExtractAll: the loop ends at the first missing path (break for
\* continue).
RECURSIVE ExtractAllBreak(_, _, _)
ExtractAllBreak(variant, files_config, gen) ==
    IF files_config = << >> THEN << >>
    ELSE LET e == Head(files_config)
         IN  IF ~PathExists(e.path) THEN << >>
             ELSE chunk_xml(variant, Manuscripts[e.path].doc, e.region, gen)
                  \o ExtractAllBreak(variant, Tail(files_config), gen)

\* The loop of run(files_config): missing paths are skipped, the chunks of
\* the others are appended in the mapping's order.
RECURSIVE ExtractAll(_, _, _)
ExtractAll(variant, files_config, gen) ==
    IF files_config = << >> THEN << >>
    ELSE LET e == Head(files_config)
             rest == ExtractAll(variant, Tail(files_config), gen)
         IN  IF ~PathExists(e.path) THEN rest
             ELSE chunk_xml(variant, Manuscripts[e.path].doc, e.region, gen) \o rest

\* ExtractAll over the mappings and service outcomes of the model, evaluated
\* once.
Extracted ==
    [ variant \in {"indexer", "resolver"} |->
        [ files_config \in Configs |->
            [ gen \in BOOLEAN |-> ExtractAll(variant, files_config, gen) ] ] ]

\* ------------------------------------------------------- embedding service
\* The vectors the service answers with (two dimensions stand for 1536).
VecTable == << <<5, 0>>, <<4, 3>>, <<3, 4>>, <<0, 5>>, <<-3, 4>>,
               <<6, 8>>, <<-4, -3>> >>

AtomCode ==
    ("Global" :> 2) @@ ("CA" :> 3) @@ ("Base" :> 5) @@ ("Coverage" :> 1)
    @@ ("Factor" :> 4) @@ ("Comprehensive" :> 6) @@ ("SafeDriver" :> 2)
    @@ ("Seismic" :> 5) @@ ("HEALED_INTENT" :> 3) @@ ("earthquake" :> 4)
    @@ ("fee" :> 5) @@ ("theft" :> 3) @@ ("pet" :> 6) @@ ("aka" :> 3)

Code(atom) == IF atom \in DOMAIN AtomCode THEN AtomCode[atom] ELSE 1

RECURSIVE SumCodes(_, _)
SumCodes(text, i) ==
    IF i > Len(text) THEN 0 ELSE Code(text[i]) * i + SumCodes(text, i + 1)

\* embeddings.create(input=text).data[0].embedding: a fixed function of the
\* text.
Embed(text) == VecTable[(SumCodes(text, 1) % Len(VecTable)) + 1]

\* Mutant of EmbedBatch: the vectors come back in reverse order.
EmbedBatchReversed(texts) ==
    [i \in 1..Len(texts) |-> Embed(texts[Len(texts) + 1 - i])]

\* embeddings.create(input=texts): one vector per input, in input order.
EmbedBatch(texts) == [i \in 1..Len(texts) |-> Embed(texts[i])]

Texts(chunks) == [i \in 1..Len(chunks) |-> chunks[i].text]

\* ------------------------------------------------------- resolution engine
Dot(a, b) == a[1] * b[1] + a[2] * b[2]

\* np.linalg.norm of a vector of the table (all have an integer norm).
Abs(x) == IF x < 0 THEN -x ELSE x

Norm(v) == CHOOSE n \in 0..(Abs(v[1]) + Abs(v[2])) : n * n = Dot(v, v)

\* One entry of sims: the cosine similarity, in hundredths.
Cosine(v, q_vec) == (Dot(v, q_vec) * 100) \div (Norm(v) * Norm(q_vec))

\* sims = np.dot(self.vectors, q_vec) / (norms of the rows * norm of q_vec)
RECURSIVE Sims(_, _)
Sims(vectors, q_vec) ==
    IF vectors = << >> THEN << >>
    ELSE <<Cosine(Head(vectors), q_vec)>> \o Sims(Tail(vectors), q_vec)

\* Mutant of ArgMax: np.argmin for np.argmax.
ArgMin(sims) ==
    CHOOSE i \in DOMAIN sims :
        /\ \A j \in DOMAIN sims : sims[i] <= sims[j]
        /\ \A j \in DOMAIN sims : j < i => sims[i] < sims[j]

\* np.argmax: the first index that holds the maximum.
ArgMax(sims) ==
    CHOOSE i \in DOMAIN sims :
        /\ \A j \in DOMAIN sims : sims[j] <= sims[i]
        /\ \A j \in DOMAIN sims : j < i => sims[j] < sims[i]

\* The region labels _get_parent_node accepts.
GlobalRegions == { <<"Global">>, <<"Global", "Base">> }

\* The placeholder returned with ESCALATED.
GapNode ==
    [ id |-> <<"JIRA-PENDING">>,
      metadata |-> [ name |-> <<"GAP", "DETECTED">>,
                     raw_xml |-> <<"STATUS: No relevant policy found.">> ] ]

\* Mutant of IsParent: the region test is dropped.
IsParentAnyRegion(entry, parent_name) ==
    MetaGet(entry.metadata, "name") = parent_name

IsParent(entry, parent_name) ==
    /\ MetaGet(entry.metadata, "name") = parent_name
    /\ MetaGet(entry.metadata, "region") \in GlobalRegions

\* _get_parent_node: the index of the first entry that qualifies, 0 for None.
get_parent_node(metadata, parent_name) ==
    IF \E i \in 1..Len(metadata) : IsParent(metadata[i], parent_name)
    THEN CHOOSE i \in 1..Len(metadata) :
             /\ IsParent(metadata[i], parent_name)
             /\ \A j \in 1..(i - 1) : ~IsParent(metadata[j], parent_name)
    ELSE 0

\* Mutant of CombinedXml: the overlay section is written before the base
\* section.
CombinedXmlChildFirst(inherits_from, parent_entry, result_node) ==
    <<"### DATA_SOURCE_LINEAGE ###", "[[ SOURCE_B: REGIONAL_OVERLAY ]]", "ENTITY:">>
    \o result_node.metadata.name \o <<"REGION:">>
    \o result_node.metadata.region \o <<"CONTENT:">>
    \o MetaGet(result_node.metadata, "raw_xml")
    \o <<"[[ SOURCE_A: GLOBAL_BASE_LAYER ]]", "ENTITY:">>
    \o inherits_from \o <<"CONTENT:">>
    \o MetaGet(parent_entry.metadata, "raw_xml")
    \o <<"### END_LINEAGE_DATA ###">>

\* The lineage document of a healed match.
CombinedXml(inherits_from, parent_entry, result_node) ==
    <<"### DATA_SOURCE_LINEAGE ###", "[[ SOURCE_A: GLOBAL_BASE_LAYER ]]", "ENTITY:">>
    \o inherits_from \o <<"CONTENT:">>
    \o MetaGet(parent_entry.metadata, "raw_xml")
    \o <<"[[ SOURCE_B: REGIONAL_OVERLAY ]]", "ENTITY:">>
    \o result_node.metadata.name \o <<"REGION:">>
    \o result_node.metadata.region \o <<"CONTENT:">>
    \o MetaGet(result_node.metadata, "raw_xml")
    \o <<"### END_LINEAGE_DATA ###">>

Answer(status, score, node) == [status |-> status, score |-> score, node |-> node]

\* An exception that leaves get_aether_result (numpy's ValueError on an empty
\* vector array, IndexError on self.metadata[idx]).
Raised == Answer("RAISED", 0, [id |-> None])

\* The inheritance step of get_aether_result, from result_node on.
Lineage(metadata, result_node, score) ==
    LET inherits_from == MetaGet(result_node.metadata, "inheritsFrom")
        parent == IF Truthy(inherits_from)
                  THEN get_parent_node(metadata, inherits_from) ELSE 0
    IN  IF Truthy(inherits_from) /\ parent # 0
        THEN Answer("SUCCESS", 100,
                 [ id |-> result_node.id,
                   metadata |-> [result_node.metadata EXCEPT !.raw_xml =
                       CombinedXml(inherits_from, metadata[parent], result_node)] ])
        ELSE Answer("SUCCESS", score, result_node)

\* get_aether_result after the query is embedded.
get_aether_result(metadata, vectors, q_vec, threshold) ==
    IF Len(vectors) = 0 THEN Raised
    ELSE LET sims == Sims(vectors, q_vec)
             idx == ArgMax(sims)
             score == sims[idx]
         IN  IF score < threshold THEN Answer("ESCALATED", score, GapNode)
             ELSE IF idx > Len(metadata) THEN Raised
             ELSE Lineage(metadata, metadata[idx], score)

\* --------------------------------------------------------------- re-indexer
\* Mutant of FirstNamed: updated_index starts at 0, so a scan without a match
\* ends on the first chunk.
FirstNamedFromZero(all_chunks, node_name) ==
    IF \E i \in 1..Len(all_chunks) : all_chunks[i].metadata.name = node_name
    THEN CHOOSE i \in 1..Len(all_chunks) :
             /\ all_chunks[i].metadata.name = node_name
             /\ \A j \in 1..(i - 1) : all_chunks[j].metadata.name # node_name
    ELSE 1

\* The scan of re_index_node: the first index whose name matches, 0 for -1.
FirstNamed(all_chunks, node_name) ==
    IF \E i \in 1..Len(all_chunks) : all_chunks[i].metadata.name = node_name
    THEN CHOOSE i \in 1..Len(all_chunks) :
             /\ all_chunks[i].metadata.name = node_name
             /\ \A j \in 1..(i - 1) : all_chunks[j].metadata.name # node_name
    ELSE 0

\* chunk['text'] += f" | HEALED_INTENT: {user_intent}"
Annotate(text, user_intent) == text \o <<"HEALED_INTENT">> \o user_intent

\* Mutant of HealedChunks: the scan has no break, every chunk of that name is
\* annotated.
HealedChunksNoBreak(all_chunks, updated_index, user_intent) ==
    [i \in 1..Len(all_chunks) |->
        IF all_chunks[i].metadata.name = all_chunks[updated_index].metadata.name
        THEN [all_chunks[i] EXCEPT !.text = Annotate(@, user_intent)]
        ELSE all_chunks[i]]

\* The chunk list re_index_node dumps: the chunk at updated_index annotated.
HealedChunks(all_chunks, updated_index, user_intent) ==
    [all_chunks EXCEPT ![updated_index].text = Annotate(@, user_intent)]

\* vectors[updated_index] = new_vector
HealedVectors(vectors, updated_index, new_vector) ==
    [vectors EXCEPT ![updated_index] = new_vector]

RECURSIVE CountAtom(_, _)
CountAtom(text, atom) ==
    IF text = << >> THEN 0
    ELSE (IF Head(text) = atom THEN 1 ELSE 0) + CountAtom(Tail(text), atom)

RECURSIVE HealCount(_)
HealCount(chunks) ==
    IF chunks = << >> THEN 0
    ELSE CountAtom(Head(chunks).text, "HEALED_INTENT") + HealCount(Tail(chunks))

\* ------------------------------------------------------------------- inputs
Queries == { <<"earthquake", "fee">>, <<"theft">>, <<"pet">> }

\* threshold in hundredths; 30 is the default of get_aether_result.
Thresholds == { 30, 80 }

NodeNames == { <<"Comprehensive">>, <<"Nope">> }

Intents == { <<"earthquake">> }

\* -------------------------------------------------------------------- state
NoFile == [exists |-> FALSE, data |-> << >>]

File(data) == [exists |-> TRUE, data |-> data]

NoEngine == [loaded |-> FALSE, metadata |-> << >>, vectors |-> << >>]

NoResult == [status |-> "NONE", score |-> 0, node |-> [id |-> None]]

\* What the last call was, how it ended and how many embedding-service calls
\* it made.
Call(op, ret, embedCalls) == [op |-> op, ret |-> ret, embedCalls |-> embedCalls]

\* A store folder the program may be started on: no artifact, or a single
\* artifact left behind (ensure_logic_fabric and re_index_node test for both).
StartFolders ==
    { <<NoFile, NoFile>>,
      <<File(<< <<5, 0>> >>), NoFile>>,
      <<NoFile, File(<<IndexerChunk(DocGlobal[1], <<"Global">>)>>)>> }

Init ==
    /\ \E f \in StartFolders : vectorsFile = f[1] /\ metadataFile = f[2]
    /\ pc = "idle"
    /\ pending = << >>
    /\ engine = NoEngine
    /\ atConstruction = [metadata |-> << >>, vectors |-> << >>]
    /\ last = Call("none", "None", 0)
    /\ result = NoResult

\* os.path.exists of both artifacts (re_index_node, ensure_logic_fabric).
StorePresent(mfile, vfile) == mfile.exists /\ vfile.exists

\* ----------------------------------------------------------------- builders
\* run() up to and including np.save: the chunk list is still to be dumped.
\* skipEmpty is the "if not all_chunks: return" of logic/indexer.py.
Build(variant, skipEmpty, files_config, gen, embedOk) ==
    LET all_chunks == Extracted[variant][files_config][gen]
    IN  /\ pc = "idle"
        /\ result' = NoResult
        /\ UNCHANGED <<metadataFile, engine, atConstruction>>
        /\ IF skipEmpty /\ all_chunks = << >>
           THEN /\ last' = Call("run", "None", 0)
                /\ UNCHANGED <<vectorsFile, pc, pending>>
           ELSE IF ~embedOk
           THEN /\ last' = Call("run", "raise", 1)
                /\ UNCHANGED <<vectorsFile, pc, pending>>
           ELSE /\ pending' = all_chunks
                /\ pc' = "dump"
                /\ last' = Call("run", "running", 1)
                /\ vectorsFile' = File(EmbedBatch(Texts(all_chunks)))

\* logic/indexer.py AetherIndexer.run
run(files_config, embedOk) ==
    Build("indexer", TRUE, files_config, TRUE, embedOk)

\* logic/resolver.py AetherIndexer.run
run_resolver(files_config, gen, embedOk) ==
    Build("resolver", FALSE, files_config, gen, embedOk)

\* json.dump(all_chunks, f): the second write of run().
DumpMetadata ==
    /\ pc = "dump"
    /\ metadataFile' = File(pending)
    /\ pc' = "idle"
    /\ pending' = << >>
    /\ last' = [last EXCEPT !.ret = "None"]
    /\ UNCHANGED <<vectorsFile, engine, atConstruction, result>>

\* --------------------------------------------------------------- re-indexer
\* Mutant of re_index_node: the annotated chunk list is dumped before the
\* embedding call, so a failing call leaves a rewritten metadata.json.
re_index_node_DumpFirst(node_name, user_intent, embedOk) ==
    LET all_chunks == metadataFile.data
        vectors == vectorsFile.data
        updated_index == FirstNamed(all_chunks, node_name)
        answer(ret, n) == Call("re_index_node", ret, n)
    IN  /\ pc = "idle"
        /\ result' = NoResult
        /\ UNCHANGED <<pc, pending, engine, atConstruction>>
        /\ IF ~StorePresent(metadataFile, vectorsFile)
           THEN /\ last' = answer("False", 0)
                /\ UNCHANGED <<vectorsFile, metadataFile>>
           ELSE IF updated_index = 0
           THEN /\ last' = answer("False", 0)
                /\ UNCHANGED <<vectorsFile, metadataFile>>
           ELSE /\ HealCount(all_chunks) < MaxHeals
                /\ metadataFile' = File(HealedChunks(all_chunks, updated_index, user_intent))
                /\ IF ~embedOk \/ updated_index > Len(vectors)
                   THEN /\ last' = answer("raise", 1)
                        /\ UNCHANGED vectorsFile
                   ELSE /\ vectorsFile' = File(HealedVectors(vectors, updated_index,
                               Embed(Annotate(all_chunks[updated_index].text, user_intent))))
                        /\ last' = answer("True", 1)

\* logic/indexer.py AetherIndexer.re_index_node
re_index_node(node_name, user_intent, embedOk) ==
    LET all_chunks == metadataFile.data
        vectors == vectorsFile.data
        updated_index == FirstNamed(all_chunks, node_name)
        answer(ret, n) == Call("re_index_node", ret, n)
    IN  /\ pc = "idle"
        /\ result' = NoResult
        /\ UNCHANGED <<pc, pending, engine, atConstruction>>
        /\ IF ~StorePresent(metadataFile, vectorsFile)
           THEN /\ last' = answer("False", 0)
                /\ UNCHANGED <<vectorsFile, metadataFile>>
           ELSE IF updated_index = 0
           THEN /\ last' = answer("False", 0)
                /\ UNCHANGED <<vectorsFile, metadataFile>>
           ELSE IF ~embedOk \/ updated_index > Len(vectors)
           THEN \* the embedding call raises, or vectors[updated_index] does
                /\ last' = answer("raise", 1)
                /\ UNCHANGED <<vectorsFile, metadataFile>>
           ELSE /\ HealCount(all_chunks) < MaxHeals
                /\ vectorsFile' = File(HealedVectors(vectors, updated_index,
                       Embed(Annotate(all_chunks[updated_index].text, user_intent))))
                /\ metadataFile' = File(HealedChunks(all_chunks, updated_index, user_intent))
                /\ last' = answer("True", 1)

\* ------------------------------------------------------------------- engine
\* logic/resolver.py AetherEngine.__init__ (app.py load_engine)
EngineInit ==
    /\ pc = "idle"
    /\ result' = NoResult
    /\ UNCHANGED <<vectorsFile, metadataFile, pc, pending>>
    /\ IF metadataFile.exists /\ vectorsFile.exists
       THEN /\ engine' = [loaded |-> TRUE, metadata |-> metadataFile.data,
                          vectors |-> vectorsFile.data]
            /\ atConstruction' = [metadata |-> metadataFile.data,
                                  vectors |-> vectorsFile.data]
            /\ last' = Call("construct", "None", 0)
       ELSE /\ last' = Call("construct", "raise", 0)
            /\ UNCHANGED <<engine, atConstruction>>

\* Mutant of LoadedStore: the artifacts are read again on every call.
LoadedStoreFromDisk(eng, mfile, vfile) ==
    [metadata |-> mfile.data, vectors |-> vfile.data]

\* The store get_aether_result reads: self.metadata and self.vectors.
LoadedStore(eng, mfile, vfile) ==
    [metadata |-> eng.metadata, vectors |-> eng.vectors]

\* logic/resolver.py AetherEngine.get_aether_result
Resolve(query, threshold, embedOk) ==
    LET store == LoadedStore(engine, metadataFile, vectorsFile)
        r == get_aether_result(store.metadata, store.vectors, Embed(query), threshold)
    IN  /\ pc = "idle"
        /\ engine.loaded
        /\ UNCHANGED <<vectorsFile, metadataFile, pc, pending, engine, atConstruction>>
        /\ IF ~embedOk
           THEN /\ result' = NoResult
                /\ last' = Call("resolve", "raise", 1)
           ELSE /\ result' = r
                /\ last' = Call("resolve", IF r.status = "RAISED" THEN "raise" ELSE "result", 1)

\* -------------------------------------------------------------------- steps
RunIndexer == \E c \in Configs, ok \in BOOLEAN : run(c, ok)

RunResolver == \E c \in Configs, gen \in BOOLEAN, ok \in BOOLEAN : run_resolver(c, gen, ok)

ReIndex == \E n \in NodeNames, u \in Intents, ok \in BOOLEAN : re_index_node(n, u, ok)

Query == \E q \in Queries, t \in Thresholds, ok \in BOOLEAN : Resolve(q, t, ok)

Next ==
    \/ RunIndexer
    \/ RunResolver
    \/ DumpMetadata
    \/ ReIndex
    \/ EngineInit
    \/ Query

Spec == Init /\ [][Next]_vars

\* ------------------------------------------------------------ store facts
\* vector i is the embedding of chunks[i].text, for every i.
Aligned(chunks, vectors) ==
    /\ Len(vectors) = Len(chunks)
    /\ \A i \in 1..Len(chunks) : vectors[i] = Embed(chunks[i].text)

\* Both artifacts are on disk and form a matching pair.
ValidPair == StorePresent(metadataFile, vectorsFile)
             /\ Aligned(metadataFile.data, vectorsFile.data)

\* C1: after any sequence of builds and re-indexes, whenever no build is
\* between its two writes and both artifacts exist, the vector array and the
\* chunk list have the same length and vector i is the embedding of the
\* current text of chunk i (annotations included).
C1_StoreAligned ==
    (pc = "idle" /\ StorePresent(metadataFile, vectorsFile))
        => Aligned(metadataFile.data, vectorsFile.data)

\* A re-index has annotated a chunk of a store of several chunks.
C1_Witness ==
    /\ pc = "idle"
    /\ last.op = "re_index_node" /\ last.ret = "True"
    /\ StorePresent(metadataFile, vectorsFile)
    /\ Len(metadataFile.data) > 1
    /\ HealCount(metadataFile.data) > 0

\* The largest cosine similarity between a query vector and the vectors of a
\* store, as a plain maximum over the set of similarities.
MaxSim(vectors, q_vec) ==
    LET all == { Cosine(vectors[i], q_vec) : i \in 1..Len(vectors) }
    IN  CHOOSE m \in all : \A x \in all : x <= m

\* C2: every result resolve returns is ESCALATED exactly when the largest
\* similarity over the loaded vectors is below the threshold; ESCALATED
\* carries the GAP_DETECTED placeholder (no chunk of the store) and that
\* largest similarity as its score; every other result is SUCCESS.
C2_Gate ==
    [][ (last'.op = "resolve" /\ last'.ret = "result") =>
        \A q \in Queries, t \in Thresholds :
          Resolve(q, t, TRUE) =>
             LET m == MaxSim(engine.vectors, Embed(q))
             IN  /\ (result'.status = "ESCALATED") <=> (m < t)
                 /\ result'.status = "ESCALATED" =>
                      /\ result'.node = GapNode
                      /\ result'.node.metadata.name = <<"GAP", "DETECTED">>
                      /\ \A i \in 1..Len(engine.metadata) :
                             engine.metadata[i] # result'.node
                      /\ result'.score = m
                 /\ result'.status # "ESCALATED" => result'.status = "SUCCESS" ]_vars

\* A query was escalated by an engine that holds chunks.
C2_Witness ==
    /\ last.op = "resolve" /\ last.ret = "result"
    /\ result.status = "ESCALATED"
    /\ Len(engine.metadata) > 0

\* C3: every step that starts from a matching pair on disk leaves a matching
\* pair on disk (the old one or the new one), so no state between the two
\* writes of a build shows the new vectors beside the old chunk list.
C3_AtomicOverwrite == [][ ValidPair => ValidPair' ]_vars

\* The least index of a chunk called node_name, 0 when there is none.
FirstIndexOf(chunks, node_name) ==
    LET hits == { i \in 1..Len(chunks) : chunks[i].metadata.name = node_name }
    IN  IF hits = {} THEN 0 ELSE CHOOSE i \in hits : \A j \in hits : i <= j

\* C4: a re-index that returns True appends the annotation to the text of
\* the first chunk called node_name and replaces the vector at that index by
\* the embedding of the new text; every other chunk and vector, the number
\* and order of chunks, and that chunk's id and metadata stay as they were.
C4_ReIndexFrame ==
    [][ (last'.op = "re_index_node" /\ last'.ret = "True") =>
        \A n \in NodeNames, u \in Intents :
          re_index_node(n, u, TRUE) =>
             LET old == metadataFile.data
                 new == metadataFile'.data
                 i == FirstIndexOf(old, n)
             IN  /\ i # 0
                 /\ Len(new) = Len(old)
                 /\ Len(vectorsFile'.data) = Len(vectorsFile.data)
                 /\ \A j \in 1..Len(old) : j # i =>
                        /\ new[j] = old[j]
                        /\ vectorsFile'.data[j] = vectorsFile.data[j]
                 /\ new[i].id = old[i].id
                 /\ new[i].metadata = old[i].metadata
                 /\ new[i].text = old[i].text \o <<"HEALED_INTENT">> \o u
                 /\ new[i].text # old[i].text
                 /\ vectorsFile'.data[i] = Embed(new[i].text) ]_vars

\* A re-index succeeded on a store where two chunks share the name: the
\* first carries the annotation, the second does not.
C4_Witness ==
    /\ last.op = "re_index_node" /\ last.ret = "True"
    /\ \E i, j \in 1..Len(metadataFile.data) :
          /\ i < j
          /\ metadataFile.data[i].metadata.name = metadataFile.data[j].metadata.name
          /\ CountAtom(metadataFile.data[i].text, "HEALED_INTENT") > 0
          /\ CountAtom(metadataFile.data[j].text, "HEALED_INTENT") = 0

\* C5: a re-index called while an artifact is missing, or while no chunk is
\* called node_name, returns False, calls the embedding service zero times
\* and leaves both artifacts as they were.
C5_ReIndexFailure ==
    [][ (last'.op = "re_index_node") =>
        \A n \in NodeNames, u \in Intents, ok \in BOOLEAN :
          ( /\ re_index_node(n, u, ok)
            /\ \/ ~metadataFile.exists
               \/ ~vectorsFile.exists
               \/ FirstIndexOf(metadataFile.data, n) = 0 ) =>
             /\ last'.ret = "False"
             /\ last'.embedCalls = 0
             /\ vectorsFile' = vectorsFile
             /\ metadataFile' = metadataFile ]_vars

\* A re-index returned False while exactly one of the two artifacts existed.
C5_Witness ==
    /\ last.op = "re_index_node" /\ last.ret = "False"
    /\ metadataFile.exists # vectorsFile.exists

\* sub occurs in text starting at position p.
OccursAt(text, sub, p) ==
    /\ p >= 1
    /\ p + Len(sub) - 1 <= Len(text)
    /\ \A k \in 1..Len(sub) : text[p + k - 1] = sub[k]

\* Both raw contents occur in raw_xml, the parent's wholly before the child's.
ParentThenChild(raw_xml, parent_raw, child_raw) ==
    \E p1, p2 \in 1..Len(raw_xml) :
        /\ OccursAt(raw_xml, parent_raw, p1)
        /\ OccursAt(raw_xml, child_raw, p2)
        /\ p1 + Len(parent_raw) <= p2

\* The first index that holds the largest similarity.
BestIndex(vectors, q_vec) ==
    LET m == MaxSim(vectors, q_vec)
        hits == { i \in 1..Len(vectors) : Cosine(vectors[i], q_vec) = m }
    IN  CHOOSE i \in hits : \A j \in hits : i <= j

\* The chunks of a store that may serve as the global parent called x.
GlobalParents(metadata, x) ==
    { i \in 1..Len(metadata) :
        /\ MetaGet(metadata[i].metadata, "name") = x
        /\ MetaGet(metadata[i].metadata, "region") \in { <<"Global">>, <<"Global", "Base">> } }

\* What C6 promises of a resolve step with query q and threshold t whose
\* best match inherits from x.
MergedResult(child, x) ==
    /\ result'.status = "SUCCESS"
    /\ result'.score = 100
    /\ \E i \in GlobalParents(engine.metadata, x) :
          ParentThenChild(result'.node.metadata.raw_xml,
                          engine.metadata[i].metadata.raw_xml,
                          child.metadata.raw_xml)
    /\ result'.node.id = child.id
    /\ result'.node.metadata.name = child.metadata.name
    /\ result'.node.metadata.region = child.metadata.region
    /\ engine' = engine

\* The resolve steps C6 is about: the best match reaches the threshold and
\* names a parent that the store holds in a global region.
MergeCase(q, t) ==
    /\ Resolve(q, t, TRUE)
    /\ Len(engine.vectors) > 0
    /\ Len(engine.vectors) = Len(engine.metadata)
    /\ MaxSim(engine.vectors, Embed(q)) >= t
    /\ LET child == engine.metadata[BestIndex(engine.vectors, Embed(q))]
           x == MetaGet(child.metadata, "inheritsFrom")
       IN  x # None /\ GlobalParents(engine.metadata, x) # {}

\* The best match of query q in the loaded store.
BestMatch(q) == engine.metadata[BestIndex(engine.vectors, Embed(q))]

C7_BestEffortHealing ==
    [][ (last'.op = "resolve") =>
        \A q \in Queries, t \in Thresholds :
          LET child == BestMatch(q)
              y == MetaGet(child.metadata, "inheritsFrom")
          IN  ( /\ Resolve(q, t, TRUE)
                /\ Len(engine.vectors) > 0
                /\ Len(engine.vectors) = Len(engine.metadata)
                /\ MaxSim(engine.vectors, Embed(q)) >= t
                /\ (y = None \/ GlobalParents(engine.metadata, y) = {}) ) =>
              /\ result'.status = "SUCCESS"
              /\ result'.node = child
              /\ result'.score = MaxSim(engine.vectors, Embed(q))
              /\ result'.node.metadata.raw_xml = child.metadata.raw_xml ]_vars

\* An unmerged match below 1.0 whose parent name is carried only by chunks
\* of a regional overlay.
C7_Witness ==
    /\ last.op = "resolve" /\ result.status = "SUCCESS"
    /\ result.score < 100
    /\ "text" \in DOMAIN result.node
    /\ MetaGet(result.node.metadata, "inheritsFrom") # None
    /\ \E i \in 1..Len(engine.metadata) :
          engine.metadata[i].metadata.name = MetaGet(result.node.metadata, "inheritsFrom")

\* The tags the extractor of a builder selects.
TagsOf(variant) == IF variant = "indexer"
                   THEN { <<"Coverage">>, <<"Factor">> }
                   ELSE { <<"Coverage">>, <<"Factor">>, <<"Governance", "Rules">>,
                          <<"LOB", "Configuration">> }

\* Region and markup of every rule-bearing element of the manuscripts of a
\* mapping that exist, in the mapping's order.
RECURSIVE SourcesOf(_, _)
SourcesOf(variant, files_config) ==
    IF files_config = << >> THEN << >>
    ELSE LET e == files_config[Len(files_config)]
             front == SourcesOf(variant, SubSeq(files_config, 1, Len(files_config) - 1))
             nodes == SelectSeq(Manuscripts[e.path].doc,
                                LAMBDA n : n.tag \in TagsOf(variant))
         IN  IF Manuscripts[e.path].exists
             THEN front \o [k \in 1..Len(nodes) |-> <<e.region, Tostring(nodes[k])>>]
             ELSE front

\* SourcesOf over the mappings of the model, evaluated once.
Sources ==
    [ variant \in {"indexer", "resolver"} |->
        [ files_config \in Configs |-> SourcesOf(variant, files_config) ] ]

\* Region and markup of the chunks of a chunk list.
ChunkSources(chunks) ==
    [k \in 1..Len(chunks) |-> <<chunks[k].metadata.region, chunks[k].metadata.raw_xml>>]

\* Every chunk comes from a region of the mapping whose path exists.
NoMissingRegion(chunks, files_config) ==
    \A k \in 1..Len(chunks) :
        \E j \in 1..Len(files_config) :
            /\ files_config[j].region = chunks[k].metadata.region
            /\ Manuscripts[files_config[j].path].exists

\* A build step that goes on to write exactly the chunks of the manuscripts
\* that exist, with one vector per chunk, and did not raise.
WritesExisting(variant, files_config) ==
    /\ pc' = "dump"
    /\ last'.ret # "raise"
    /\ ChunkSources(pending') = Sources[variant][files_config]
    /\ NoMissingRegion(pending', files_config)
    /\ Len(vectorsFile'.data) = Len(pending')

\* The second write of a build stores the chunk list it extracted and the
\* build returns without an error.
DumpCompletes ==
    pc = "dump" =>
        /\ pc' = "idle"
        /\ last'.ret = "None"
        /\ metadataFile' = File(pending)
        /\ vectorsFile' = vectorsFile

\* C8 as stated: for any mapping, after a build that the embedding service
\* does not fail, the store holds exactly the chunks of the manuscripts that
\* exist, also when the build returns without writing.
C8_MissingCorpusAnyMapping ==
    [][ (last'.op = "run") =>
        /\ DumpCompletes
        /\ \A c \in Configs, gen \in BOOLEAN :
             /\ run(c, TRUE) =>
                  \/ WritesExisting("indexer", c)
                  \/ /\ pc' = "idle" /\ last'.ret = "None"
                     /\ StorePresent(metadataFile', vectorsFile') =>
                          ChunkSources(metadataFile'.data) = Sources["indexer"][c]
             /\ run_resolver(c, gen, TRUE) => WritesExisting("resolver", c) ]_vars

\* C8, amended: for any mapping from which at least one chunk is extracted,
\* missing paths are skipped without an error and the build writes exactly
\* the chunks of the manuscripts that exist, in the mapping's order, and no
\* chunk of a missing region.
C8_MissingCorpus ==
    [][ (last'.op = "run") =>
        /\ DumpCompletes
        /\ \A c \in Configs, gen \in BOOLEAN :
             /\ (run(c, TRUE) /\ Sources["indexer"][c] # << >>) =>
                  WritesExisting("indexer", c)
             /\ (run_resolver(c, gen, TRUE) /\ Sources["resolver"][c] # << >>) =>
                  WritesExisting("resolver", c) ]_vars

\* A finished build from a mapping with a missing path: the store holds the
\* two chunks of the overlay and nothing of the missing region.
C8_Witness ==
    /\ pc = "idle"
    /\ last.op = "run" /\ last.ret = "None"
    /\ StorePresent(metadataFile, vectorsFile)
    /\ Len(metadataFile.data) = 2
    /\ \A k \in 1..Len(metadataFile.data) :
          metadataFile.data[k].metadata.region = <<"CA">>

\* C9: a build that extracts no chunk calls the embedding service zero times
\* and leaves both artifacts as they were.
C9_EmptyCorpusNoOp ==
    [][ (last'.op = "run" /\ pc = "idle") =>
        \A c \in Configs, gen \in BOOLEAN, ok \in BOOLEAN :
          ( \/ run(c, ok) /\ Sources["indexer"][c] = << >>
            \/ run_resolver(c, gen, ok) /\ Sources["resolver"][c] = << >> ) =>
              /\ last'.embedCalls = 0
              /\ vectorsFile' = vectorsFile
              /\ metadataFile' = metadataFile ]_vars

\* C10: every result of an engine is the result on the store as it was when
\* the engine was constructed, whatever was built or re-indexed since; the
\* loaded store changes only by constructing an engine, which takes the
\* store then on disk.
C10_NoHotReload ==
    [][ /\ (last'.op = "resolve") =>
             \A q \in Queries, t \in Thresholds :
                Resolve(q, t, TRUE) =>
                   result' = get_aether_result(atConstruction.metadata,
                                 atConstruction.vectors, Embed(q), t)
        /\ (engine' # engine) =>
             /\ last'.op = "construct"
             /\ engine'.metadata = metadataFile.data
             /\ engine'.vectors = vectorsFile.data ]_vars

\* An engine answered from its construction-time store while the store on
\* disk would have given another answer.
C10_Witness ==
    /\ last.op = "resolve" /\ last.ret = "result"
    /\ StorePresent(metadataFile, vectorsFile)
    /\ \E q \in Queries, t \in Thresholds :
          /\ result = get_aether_result(atConstruction.metadata,
                          atConstruction.vectors, Embed(q), t)
          /\ result # get_aether_result(metadataFile.data, vectorsFile.data,
                          Embed(q), t)

\* ------------------------------------------------------------------- C11
Ids(chunks) == [i \in DOMAIN chunks |-> chunks[i].id]

Distinct(seq) == \A i, j \in DOMAIN seq : i # j => seq[i] # seq[j]

\* C11: in every store on disk (after a build has written both artifacts,
\* and after any re-index of it) no two chunks carry the same id.
C11_UniqueIds ==
    (pc = "idle" /\ metadataFile.exists) => Distinct(Ids(metadataFile.data))

\* ------------------------------------------------------------------- C12
\* The outcome of an operation whose embedding call raised: the exception
\* leaves the operation after one call, and neither artifact was written.
HardFailure ==
    /\ last'.ret = "raise"
    /\ last'.embedCalls = 1
    /\ vectorsFile' = vectorsFile
    /\ metadataFile' = metadataFile
    /\ pc' = "idle"

\* The chunk re_index_node would annotate exists, so it reaches its
\* embedding call.
ReachesEmbedding(node_name) ==
    /\ StorePresent(metadataFile, vectorsFile)
    /\ FirstNamed(metadataFile.data, node_name) # 0

\* C12: when the embedding call of a full build or of a re-index raises, the
\* operation raises after that single call (no retry, no success value) and
\* vectors.npy and metadata.json are exactly what they were before it; when
\* the embedding call of a resolve raises, the resolve raises and returns
\* neither a SUCCESS nor an ESCALATED result.
C12_EmbeddingFailure ==
    [][ (last'.op \in {"run", "re_index_node", "resolve"}) =>
          /\ \A c \in Configs :
                (Extracted["indexer"][c][TRUE] # << >> /\ run(c, FALSE))
                    => HardFailure
          /\ \A c \in Configs, gen \in BOOLEAN :
                run_resolver(c, gen, FALSE) => HardFailure
          /\ \A n \in NodeNames, u \in Intents :
                (ReachesEmbedding(n) /\ re_index_node(n, u, FALSE))
                    => HardFailure
          /\ \A q \in Queries, t \in Thresholds :
                Resolve(q, t, FALSE)
                    => /\ last'.ret = "raise"
                       /\ last'.embedCalls = 1
                       /\ result'.status \notin {"SUCCESS", "ESCALATED"}
      ]_vars

\* A re-index of a matching store of several chunks has just raised at its
\* embedding call.
C12_Witness ==
    /\ pc = "idle"
    /\ last.op = "re_index_node" /\ last.ret = "raise" /\ last.embedCalls = 1
    /\ ValidPair
    /\ Len(metadataFile.data) > 1
====
